---- MODULE Spec2Model ----
(***************************************************************************)
(* The Sphinx extension code_annotations.contrib.sphinx.extensions.        *)
(* openedx_events: setup(app), OpenedxEvents.run and the generator         *)
(* OpenedxEvents.iter_nodes, which groups the event annotations of a       *)
(* source tree into domain / subject / event sections.                     *)
(*                                                                         *)
(* Strings that the code takes apart or compares (event types, segments)   *)
(* are sequences of one-character strings; docutils nodes that the code    *)
(* keeps references to (sections) live in a heap, `nodes`, and are named   *)
(* by their index in it; None is 0.                                        *)
(***************************************************************************)
EXTENDS Naturals, Sequences, FiniteSets, TLC

VARIABLES
    app_config,       \* app.add_config_value registrations
    app_directives,   \* app.add_directive registrations
    setup_result,     \* what setup(app) returned
    config,           \* env.config: openedxevents_repo_url, openedxevents_repo_version
    events,           \* the mapping find_events returns: event type -> record
    pc,               \* where the host / run / iter_nodes stand
    order,            \* sorted(events), the list the for loop walks
    idx,              \* position of the for loop in order
    event_type,       \* the loop variable
    current_domain,
    domain_header,
    current_subject,
    subject_header,
    nodes,            \* heap of section nodes
    yielded,          \* what list() in run has collected so far
    result,           \* the list run returned
    err,              \* the exception that left run, "none" if none
    previous          \* outcome of the previous execution of the directive

vars == <<app_config, app_directives, setup_result, config, events, pc, order, idx,
          event_type, current_domain, domain_header, current_subject, subject_header,
          nodes, yielded, result, err, previous>>

(***************************************************************************)
(* Bounds of the model                                                     *)
(***************************************************************************)
MaxEvents == 3
MaxVariants == 1

None == 0
EmptyStr == <<>>

(***************************************************************************)
(* Strings                                                                 *)
(***************************************************************************)
\* ord() of the characters that occur in the event types of the model
Ord(c) ==
    CASE c = "-" -> 45
      [] c = "." -> 46
      [] c = "d" -> 100
      [] c = "e" -> 101
      [] c = "o" -> 111
      [] c = "s" -> 115
      [] c = "t" -> 116
      [] c = "x" -> 120
      [] c = "y" -> 121

\* Python's < on str: by code point, a proper prefix is smaller
RECURSIVE StrLess(_, _)
StrLess(a, b) ==
    IF a = <<>> THEN b # <<>>
    ELSE IF b = <<>> THEN FALSE
    ELSE IF Head(a) = Head(b) THEN StrLess(Tail(a), Tail(b))
    ELSE Ord(Head(a)) < Ord(Head(b))

\* str.split("."): one more segment than there are dots, segments may be empty
RECURSIVE Split(_)
Split(s) ==
    IF s = <<>> THEN << <<>> >>
    ELSE LET rest == Split(Tail(s))
         IN  IF Head(s) = "." THEN << <<>> >> \o rest
             ELSE << <<Head(s)>> \o Head(rest) >> \o Tail(rest)

\* list.insert at the place sorted() gives x among the already sorted s
RECURSIVE Insert(_, _)
Insert(x, s) ==
    IF s = <<>> THEN <<x>>
    ELSE IF StrLess(x, Head(s)) THEN <<x>> \o s
    ELSE <<Head(s)>> \o Insert(x, Tail(s))

RECURSIVE InsertionSort(_)
InsertionSort(s) == IF s = <<>> THEN <<>> ELSE Insert(Head(s), InsertionSort(Tail(s)))

\* the mapping iterated as it is, without sorted()
Unsorted(keys) == keys

\* sorted(events): the keys, in the mapping's iteration order, sorted ascending
Sorted(keys) == InsertionSort(keys)

(***************************************************************************)
(* The annotations found in the source tree                                *)
(***************************************************************************)
F_name == ".. event_name:"
F_data == ".. event_data:"
F_key == ".. event_key_field:"
F_description == ".. event_description:"
F_filename == "filename"
F_line == "line_number"

RequiredFields == {F_name, F_data, F_description, F_filename, F_line}

FieldValue(f) ==
    CASE f = F_name -> <<"s">>
      [] f = F_data -> <<"d">>
      [] f = F_key -> <<"x">>
      [] f = F_description -> <<"t">>
      [] f = F_filename -> <<"e">>
      [] f = F_line -> <<"o">>

PlainRecord == [f \in RequiredFields |-> FieldValue(f)]
KeyRecord == [f \in RequiredFields \cup {F_key} |-> FieldValue(f)]
EmptyKeyRecord == [f \in RequiredFields \cup {F_key} |->
                      IF f = F_key THEN EmptyStr ELSE FieldValue(f)]
LackingRecords == {[f \in RequiredFields \ {g} |-> FieldValue(f)] : g \in RequiredFields}
Records == {PlainRecord, KeyRecord, EmptyKeyRecord} \cup LackingRecords

\* event types: well-formed ones that share or differ in domain, subject and the first
\* two segments, one with a character below ".", one with an empty subject, one with
\* an empty domain and one with three segments only
EventTypes ==
    {<<"o", ".", "x", ".", "d", ".", "s">>,
     <<"o", ".", "x", ".", "d", ".", "t">>,
     <<"o", ".", "x", ".", "e", ".", "s">>,
     <<"o", ".", "y", ".", "d", ".", "s">>,
     <<"o", ".", "x", ".", "d", "-", ".", "s">>,
     <<"o", ".", "x", ".", "e", ".">>,
     <<"o", ".", "y", ".", ".", "s">>,
     <<"o", ".", "x", ".", "d">>}

Mappings ==
    UNION {{m \in [K -> Records] :
               Cardinality({k \in K : m[k] # PlainRecord}) <= MaxVariants}
           : K \in {K \in SUBSET EventTypes : Cardinality(K) <= MaxEvents}}

\* mappings whose records all have the required fields
TwinRecords == {PlainRecord, KeyRecord}

TwinMappings ==
    UNION {[K -> TwinRecords] : K \in {K \in SUBSET EventTypes : Cardinality(K) <= MaxEvents}}

\* the orders in which a mapping with these keys may hand them out
IterOrders(K) ==
    {s \in [1..Cardinality(K) -> K] : \A i, j \in 1..Cardinality(K) : s[i] = s[j] => i = j}

(***************************************************************************)
(* docutils nodes                                                          *)
(***************************************************************************)
Id(prefix, arg) == <<prefix, arg>>

\* nodes.title(text=label + text)
Title(label, text, ids) ==
    [tag |-> "title", label |-> label, text |-> text, literal |-> FALSE, ids |-> ids,
     ref |-> None]

\* nodes.paragraph(text=label + text), or nodes.paragraph("", label, nodes.literal(text))
Paragraph(label, text, literal) ==
    [tag |-> "paragraph", label |-> label, text |-> text, literal |-> literal,
     ids |-> <<>>, ref |-> None]

\* a section as the child of another section
Child(n) ==
    [tag |-> "section", label |-> "", text |-> <<>>, literal |-> FALSE, ids |-> <<>>,
     ref |-> n]

\* nodes.section("", ids=[id]) followed by += of its first children
Section(id, children) == [ids |-> id, children |-> children]

\* header += node, for a header that is a section of the heap
AddChild(heap, header, item) ==
    [heap EXCEPT ![header].children = Append(@, item)]

\* the node and everything below it, by value: what the rendered document shows
RECURSIVE Tree(_, _)
Tree(heap, n) ==
    [ids |-> heap[n].ids,
     children |-> [i \in 1..Len(heap[n].children) |->
                      LET c == heap[n].children[i]
                      IN  IF c.tag = "section"
                          THEN [item |-> Child(None), sub |-> <<Tree(heap, c.ref)>>]
                          ELSE [item |-> c, sub |-> <<>>]]]

(***************************************************************************)
(* setup(app)                                                              *)
(***************************************************************************)
\* a registration of the repository url under another default
SetupConfigValues_OtherDefault ==
    {[name |-> "openedxevents_source_path", default |-> "os.path.abspath('..')",
      rebuild |-> "env"],
     [name |-> "openedxevents_repo_url", default |-> "main", rebuild |-> "env"],
     [name |-> "openedxevents_repo_version", default |-> "main", rebuild |-> "env"]}

\* the three app.add_config_value calls
SetupConfigValues ==
    {[name |-> "openedxevents_source_path", default |-> "os.path.abspath('..')",
      rebuild |-> "env"],
     [name |-> "openedxevents_repo_url", default |-> "", rebuild |-> "env"],
     [name |-> "openedxevents_repo_version", default |-> "main", rebuild |-> "env"]}

\* the app.add_directive call
SetupDirectives == {[name |-> "openedxevents", class |-> "OpenedxEvents"]}

\* the dictionary setup returns
SetupMetadata ==
    [version |-> "0.1", parallel_read_safe |-> TRUE, parallel_write_safe |-> TRUE]

NoMetadata == [version |-> "", parallel_read_safe |-> FALSE, parallel_write_safe |-> FALSE]

\* env.config as the registered defaults give it
DefaultConfig ==
    [repo_url |-> (CHOOSE c \in SetupConfigValues : c.name = "openedxevents_repo_url").default,
     repo_version |->
         (CHOOSE c \in SetupConfigValues : c.name = "openedxevents_repo_version").default]

\* env.config before the extension is set up
NoConfig == [repo_url |-> "", repo_version |-> ""]

\* the values conf.py may give the two string settings
ConfigChoices == [repo_url : {"", "https://github.com/openedx/myrepo"},
                  repo_version : {"main", "hexsha"}]

Setup ==
    /\ pc = "load"
    /\ app_config' = app_config \cup SetupConfigValues
    /\ app_directives' = app_directives \cup SetupDirectives
    /\ setup_result' = SetupMetadata
    /\ config' = DefaultConfig
    /\ pc' = "idle"
    /\ UNCHANGED <<events, order, idx, event_type, current_domain, domain_header,
                   current_subject, subject_header, nodes, yielded, result, err, previous>>

(***************************************************************************)
(* OpenedxEvents.run and OpenedxEvents.iter_nodes                          *)
(***************************************************************************)
\* the exception swallowed: the generator just ends and run returns what was yielded
Raise_EndsGenerator(kind) ==
    /\ pc' = "exhausted"
    /\ err' = err

\* the exception leaves iter_nodes, list() and run: run returns nothing
Raise(kind) ==
    /\ pc' = "error"
    /\ err' = kind

\* a comparison that opens a domain section for every event
DomainChanged_Always(domain, current) == TRUE

\* if domain != current_domain
DomainChanged(domain, current) == domain # current

\* if subject != current_subject
SubjectChanged(subject, current) == subject # current

\* whether one of the subscriptions event[...] raises KeyError
MissingRequired(rec) == RequiredFields \ DOMAIN rec # {}

\* event.get(".. event_key_field:", "")
EventKeyField(rec) == IF F_key \in DOMAIN rec THEN rec[F_key] ELSE EmptyStr

\* the key paragraph added whenever the record carries the field
HasKeyParagraph_IfPresent(rec) == F_key \in DOMAIN rec

\* if event_key_field: the truth value of the string
HasKeyParagraph(rec) == EventKeyField(rec) # EmptyStr

\* the children event_section has when "Defined at" is about to be built
EventChildrenHead(et, rec) ==
    <<Title("", et, Id("title-", et)),
      Paragraph("Description: ", rec[F_description], FALSE),
      Paragraph("Signal name: ", rec[F_name], TRUE)>>
    \o (IF HasKeyParagraph(rec)
        THEN <<Paragraph("Event key field: ", EventKeyField(rec), TRUE)>>
        ELSE <<>>)
    \o <<Paragraph("Event data: ", rec[F_data], TRUE)>>

\* "Defined at" with a link into the repository of the configuration
DefinedAt_WithRepo(rec) ==
    Paragraph("Defined at: ", rec[F_filename] \o <<" (line ">> \o rec[F_line] \o <<")">>,
              config.repo_url # "")

\* nodes.paragraph(text=f"Defined at: {event['filename']} (line {event['line_number']})")
DefinedAt(rec) ==
    Paragraph("Defined at: ", rec[F_filename] \o <<" (line ">> \o rec[F_line] \o <<")">>,
              FALSE)

\* iter_nodes up to the for statement: find_events, the four locals, sorted(events)
Start ==
    /\ pc = "idle"
    /\ \E it \in IterOrders(DOMAIN events) : order' = Sorted(it)
    /\ idx' = 1
    /\ event_type' = EmptyStr
    /\ current_domain' = EmptyStr
    /\ domain_header' = None
    /\ current_subject' = EmptyStr
    /\ subject_header' = None
    /\ nodes' = <<>>
    /\ yielded' = <<>>
    /\ pc' = "loop"
    /\ UNCHANGED <<app_config, app_directives, setup_result, config, events, result, err,
                   previous>>

\* the for statement takes the next event type; the two split calls and the domain
\* part of the body, with its yield
LoopHead ==
    /\ pc = "loop"
    /\ idx <= Len(order)
    /\ LET et == order[idx]
           parts == Split(et)
       IN  /\ event_type' = et
           /\ IF Len(parts) < 4
              THEN /\ Raise("IndexError")
                   /\ UNCHANGED <<current_domain, domain_header, nodes, yielded>>
              ELSE /\ pc' = "body"
                   /\ err' = err
                   /\ IF DomainChanged(parts[3], current_domain)
                      THEN /\ yielded' = IF domain_header # None
                                         THEN Append(yielded, domain_header)
                                         ELSE yielded
                           /\ current_domain' = parts[3]
                           /\ nodes' = Append(nodes,
                                  Section(Id("openedxevent-domain-", parts[3]),
                                          <<Title("Architectural subdomain: ", parts[3],
                                                  <<>>)>>))
                           /\ domain_header' = Len(nodes) + 1
                      ELSE UNCHANGED <<current_domain, domain_header, nodes, yielded>>
    /\ UNCHANGED <<app_config, app_directives, setup_result, config, events, order, idx,
                   current_subject, subject_header, result, previous>>

\* the rest of the body: the subject part, the event section, its attachment
LoopBody ==
    /\ pc = "body"
    /\ LET subject == Split(event_type)[4]
           opens == SubjectChanged(subject, current_subject)
           sh == IF opens THEN Len(nodes) + 1 ELSE subject_header
           heap1 == IF opens
                    THEN Append(nodes, Section(Id("openedxevent-subject-", subject),
                                               <<Title("Subject: ", subject, <<>>)>>))
                    ELSE nodes
           heap2 == IF opens /\ domain_header # None
                    THEN AddChild(heap1, domain_header, Child(sh))
                    ELSE heap1
           rec == events[event_type]
           es == Len(heap2) + 1
       IN  /\ current_subject' = IF opens THEN subject ELSE current_subject
           /\ subject_header' = sh
           /\ IF opens /\ domain_header = None
              THEN \* None += subject_header
                   /\ Raise("TypeError")
                   /\ nodes' = heap1
                   /\ idx' = idx
              ELSE IF {F_name, F_data, F_description} \ DOMAIN rec # {}
              THEN \* KeyError before event_section exists
                   /\ Raise("KeyError")
                   /\ nodes' = heap2
                   /\ idx' = idx
              ELSE IF MissingRequired(rec)
              THEN \* KeyError while the "Defined at" paragraph is built
                   /\ Raise("KeyError")
                   /\ nodes' = Append(heap2, Section(Id("openedxevent-", event_type),
                                                     EventChildrenHead(event_type, rec)))
                   /\ idx' = idx
              ELSE IF sh = None
              THEN \* None += event_section
                   /\ Raise("TypeError")
                   /\ nodes' = Append(heap2, Section(Id("openedxevent-", event_type),
                                  Append(EventChildrenHead(event_type, rec), DefinedAt(rec))))
                   /\ idx' = idx
              ELSE /\ nodes' = AddChild(
                          Append(heap2, Section(Id("openedxevent-", event_type),
                                  Append(EventChildrenHead(event_type, rec), DefinedAt(rec)))),
                          sh, Child(es))
                   /\ idx' = idx + 1
                   /\ pc' = "loop"
                   /\ err' = err
    /\ UNCHANGED <<app_config, app_directives, setup_result, config, events, order,
                   event_type, current_domain, domain_header, yielded, result, previous>>

\* after the loop: the last domain section is yielded and the generator ends
Finish ==
    /\ pc = "loop"
    /\ idx > Len(order)
    /\ yielded' = IF domain_header # None THEN Append(yielded, domain_header) ELSE yielded
    /\ pc' = "exhausted"
    /\ UNCHANGED <<app_config, app_directives, setup_result, config, events, order, idx,
                   event_type, current_domain, domain_header, current_subject,
                   subject_header, nodes, result, err, previous>>

\* run returns list(self.iter_nodes())
Return ==
    /\ pc = "exhausted"
    /\ result' = yielded
    /\ pc' = "done"
    /\ UNCHANGED <<app_config, app_directives, setup_result, config, events, order, idx,
                   event_type, current_domain, domain_header, current_subject,
                   subject_header, nodes, yielded, err, previous>>

\* what an execution of the directive left: the exception, or the returned trees
Outcome ==
    [returned |-> pc = "done",
     err |-> err,
     trees |-> IF pc = "done" THEN [i \in 1..Len(result) |-> Tree(nodes, result[i])]
               ELSE <<>>]

NoOutcome == [returned |-> FALSE, err |-> "not run", trees |-> <<>>]

\* the host meets the directive again, in a build whose conf.py may set the two string
\* settings differently; find_events will read the same source tree again
Rerun ==
    /\ pc \in {"done", "error"}
    /\ previous = NoOutcome
    /\ previous' = Outcome
    /\ config' \in ConfigChoices
    /\ pc' = "idle"
    /\ result' = <<>>
    /\ err' = "none"
    /\ UNCHANGED <<app_config, app_directives, setup_result, events, order, idx,
                   event_type, current_domain, domain_header, current_subject,
                   subject_header, nodes, yielded>>

(***************************************************************************)
(* Specifications                                                          *)
(***************************************************************************)
InitRest ==
    /\ app_config = {}
    /\ app_directives = {}
    /\ setup_result = NoMetadata
    /\ config = NoConfig
    /\ pc = "load"
    /\ order = <<>>
    /\ idx = 1
    /\ event_type = EmptyStr
    /\ current_domain = EmptyStr
    /\ domain_header = None
    /\ current_subject = EmptyStr
    /\ subject_header = None
    /\ nodes = <<>>
    /\ yielded = <<>>
    /\ result = <<>>
    /\ err = "none"
    /\ previous = NoOutcome

Init ==
    /\ events \in Mappings
    /\ InitRest

Next == Setup \/ Start \/ LoopHead \/ LoopBody \/ Finish \/ Return

Spec == Init /\ [][Next]_vars

\* the directive executed twice on the same source tree
InitTwin ==
    /\ events \in TwinMappings
    /\ InitRest

NextTwin == Setup \/ Start \/ LoopHead \/ LoopBody \/ Finish \/ Return \/ Rerun

SpecTwin == InitTwin /\ [][NextTwin]_vars

(***************************************************************************)
(* Vocabulary of the properties                                            *)
(***************************************************************************)
DomainPrefix == "openedxevent-domain-"
SubjectPrefix == "openedxevent-subject-"
EventPrefix == "openedxevent-"

Heap == 1..Len(nodes)
SectionsOf(prefix) == {n \in Heap : nodes[n].ids[1] = prefix}
ChildSections(n) ==
    {nodes[n].children[i].ref : i \in {j \in 1..Len(nodes[n].children) :
                                          nodes[n].children[j].tag = "section"}}
Range(s) == {s[i] : i \in 1..Len(s)}
Ascending(s) == \A i, j \in 1..Len(s) : i < j => StrLess(s[i], s[j])

Segments(et) == Split(et)
\* four or more segments, none of them empty
WellFormed(et) ==
    /\ Len(Segments(et)) >= 4
    /\ \A i \in 1..Len(Segments(et)) : Segments(et)[i] # EmptyStr
Complete(rec) == RequiredFields \subseteq DOMAIN rec
AllComplete == \A et \in DOMAIN events : Complete(events[et])
Ended == pc \in {"done", "error"}

\* the event types of the leaf sections met below section n, depth first, left to right
RECURSIVE Leaves(_)
RECURSIVE LeavesOfList(_)
LeavesOfList(refs) ==
    IF refs = <<>> THEN <<>> ELSE Leaves(Head(refs)) \o LeavesOfList(Tail(refs))
Leaves(n) ==
    IF nodes[n].ids[1] = EventPrefix THEN <<nodes[n].ids[2]>>
    ELSE LeavesOfList(SelectSeq([i \in 1..Len(nodes[n].children) |->
                                     nodes[n].children[i].ref], LAMBDA r : r # None))

ReturnedLeaves == LeavesOfList(result)

(***************************************************************************)
(* C1: when run has returned, every event's leaf section is a child of a   *)
(* subject section carrying the 4th segment of its identifier, and that    *)
(* subject section is a child of a returned domain section carrying the    *)
(* 3rd segment.  Stated for identifiers of four or more non-empty segments, *)
(* where it already fails.                                                 *)
(***************************************************************************)
C1_GroupedBySegments ==
    (pc = "done" /\ \A id \in DOMAIN events : WellFormed(id)) =>
        \A et \in DOMAIN events :
            \E e \in SectionsOf(EventPrefix), sub \in SectionsOf(SubjectPrefix),
               dom \in Range(result) :
                /\ nodes[e].ids = Id(EventPrefix, et)
                /\ e \in ChildSections(sub)
                /\ nodes[sub].ids = Id(SubjectPrefix, Segments(et)[4])
                /\ sub \in ChildSections(dom)
                /\ nodes[dom].ids = Id(DomainPrefix, Segments(et)[3])

(***************************************************************************)
(* C2: on a mapping whose identifiers all have at least four segments and  *)
(* whose records have all required fields, run ends by returning a tree    *)
(* with exactly one leaf section per key of the mapping.                   *)
(***************************************************************************)
C2_OneLeafPerEvent ==
    (/\ Ended
     /\ AllComplete
     /\ \A et \in DOMAIN events : Len(Segments(et)) >= 4)
    => /\ pc = "done"
       /\ Range(ReturnedLeaves) = DOMAIN events
       /\ Len(ReturnedLeaves) = Cardinality(DOMAIN events)

(***************************************************************************)
(* C3: the loop walks the identifiers of the mapping in ascending          *)
(* lexicographic order of the whole string, and a depth-first, left to     *)
(* right walk of the returned list meets the leaf sections in ascending    *)
(* order of their event types.                                             *)
(***************************************************************************)
C3_LexicographicOrder ==
    /\ pc \in {"loop", "body", "exhausted", "done", "error"} =>
           /\ Ascending(order)
           /\ Range(order) = DOMAIN events
    /\ pc \in {"loop", "body"} => idx \in 1..(Len(order) + 1)
    /\ pc = "body" => event_type = order[idx]
    /\ pc = "done" => Ascending(ReturnedLeaves)

\* a returned tree of two domain sections whose leaves include the identifier with "-",
\* which the string order puts before the identifier it extends
C3_Witness ==
    /\ pc = "done"
    /\ Len(result) >= 2
    /\ Len(ReturnedLeaves) >= 3
    /\ ReturnedLeaves[1] = <<"o", ".", "x", ".", "d", "-", ".", "s">>
    /\ ReturnedLeaves[2] = <<"o", ".", "x", ".", "d", ".", "s">>

(***************************************************************************)
(* C4: when every record has the five required fields, run raises nothing. *)
(* Stated for identifiers of at least four segments, where it already      *)
(* fails; an identifier of fewer segments raises IndexError in LoopHead.   *)
(***************************************************************************)
C4_NoOtherFailure ==
    (AllComplete /\ \A et \in DOMAIN events : Len(Segments(et)) >= 4) => pc # "error"

\* some record lacks a required field, every identifier is well formed
C5_Applies ==
    /\ ~AllComplete
    /\ \A et \in DOMAIN events : WellFormed(et)

(***************************************************************************)
(* C5: when some record lacks a required field and every identifier        *)
(* consists of four or more non-empty segments, run never returns a list,  *)
(* the only exception that leaves it is the KeyError of the lookup, and    *)
(* the leaf section of a record that lacks a field is never the child of   *)
(* any section.                                                            *)
(***************************************************************************)
C5_MissingFieldRaises ==
    C5_Applies =>
        /\ pc \notin {"exhausted", "done"}
        /\ result = <<>>
        /\ pc = "error" => err = "KeyError" /\ ~Complete(events[event_type])
        /\ pc \in {"loop", "body"} =>
               \A i \in 1..(idx - 1) : Complete(events[order[i]])
        /\ \A e \in SectionsOf(EventPrefix) :
               ~Complete(events[nodes[e].ids[2]]) =>
                   \A n \in Heap : e \notin ChildSections(n)

\* the lookup fails after a domain section was already handed to list(), and with the
\* unfinished leaf section of the offending event in existence
C5_Witness ==
    /\ C5_Applies
    /\ pc = "error"
    /\ err = "KeyError"
    /\ yielded # <<>>
    /\ \E e \in SectionsOf(EventPrefix) : nodes[e].ids = Id(EventPrefix, event_type)

Labels(n) == [i \in 1..Len(nodes[n].children) |-> nodes[n].children[i].label]
Tags(n) == [i \in 1..Len(nodes[n].children) |-> nodes[n].children[i].tag]

(***************************************************************************)
(* C6: a missing event_key_field is never the reason of an exception; a    *)
(* finished leaf section has an "Event key field" paragraph exactly when   *)
(* the record has a non-empty event_key_field, and its children are, in    *)
(* this order: title, Description, Signal name, [Event key field], Event   *)
(* data, Defined at.                                                       *)
(***************************************************************************)
C6_KeyFieldOptional ==
    /\ err = "KeyError" => RequiredFields \ DOMAIN events[event_type] # {}
    /\ \A e \in SectionsOf(EventPrefix) :
           LET rec == events[nodes[e].ids[2]]
               keyed == F_key \in DOMAIN rec /\ rec[F_key] # EmptyStr
           IN  Complete(rec) =>
                   /\ Tags(e)[1] = "title"
                   /\ \A i \in 2..Len(Tags(e)) : Tags(e)[i] = "paragraph"
                   /\ Labels(e) =
                          IF keyed
                          THEN <<"", "Description: ", "Signal name: ", "Event key field: ",
                                 "Event data: ", "Defined at: ">>
                          ELSE <<"", "Description: ", "Signal name: ", "Event data: ",
                                 "Defined at: ">>

\* a returned tree with a leaf that has the key paragraph and a leaf that has none
C6_Witness ==
    /\ pc = "done"
    /\ \E e, f \in SectionsOf(EventPrefix) :
           /\ Len(nodes[e].children) = 6
           /\ nodes[e].children[4].label = "Event key field: "
           /\ Len(nodes[f].children) = 5
           /\ F_key \notin DOMAIN events[nodes[f].ids[2]]

\* a returned leaf whose record has an empty event_key_field
C6_WitnessEmptyKey ==
    /\ pc = "done"
    /\ \E e \in SectionsOf(EventPrefix) :
           /\ F_key \in DOMAIN events[nodes[e].ids[2]]
           /\ Len(nodes[e].children) = 5

(***************************************************************************)
(* C7: before setup nothing is registered; after it the host holds exactly *)
(* the three configuration values openedxevents_source_path (a path),      *)
(* openedxevents_repo_url (default "") and openedxevents_repo_version      *)
(* (default "main") and exactly the directive openedxevents bound to       *)
(* OpenedxEvents, and setup has returned metadata declaring the extension  *)
(* safe for parallel reading and writing.                                  *)
(***************************************************************************)
C7_SetupRegistrations ==
    /\ pc = "load" => app_config = {} /\ app_directives = {}
    /\ pc # "load" =>
           /\ {c.name : c \in app_config} =
                  {"openedxevents_source_path", "openedxevents_repo_url",
                   "openedxevents_repo_version"}
           /\ Cardinality(app_config) = 3
           /\ \A c \in app_config :
                  /\ c.name = "openedxevents_source_path" =>
                         c.default = "os.path.abspath('..')"
                  /\ c.name = "openedxevents_repo_url" => c.default = ""
                  /\ c.name = "openedxevents_repo_version" => c.default = "main"
           /\ app_directives = {[name |-> "openedxevents", class |-> "OpenedxEvents"]}
           /\ setup_result.parallel_read_safe
           /\ setup_result.parallel_write_safe

C7_Witness ==
    /\ pc = "idle"
    /\ Cardinality(app_config) = 3
    /\ Cardinality(app_directives) = 1

(***************************************************************************)
(* C8: no step of the iteration changes anything inside a domain section   *)
(* that was already yielded.  Stated for identifiers of four or more       *)
(* non-empty segments, where it already fails.                             *)
(***************************************************************************)
C8_YieldedIsComplete ==
    [][(pc \in {"loop", "body"} /\ \A et \in DOMAIN events : WellFormed(et)) =>
           \A i \in 1..Len(yielded) : Tree(nodes', yielded[i]) = Tree(nodes, yielded[i])]_vars

\* the domains of the returned sections, in list order
ReturnedDomains == [i \in 1..Len(result) |-> nodes[result[i]].ids[2]]

(***************************************************************************)
(* C9: the returned list holds exactly one domain section for each         *)
(* distinct 3rd segment among the identifiers.                             *)
(***************************************************************************)
C9_OneSectionPerDomain ==
    pc = "done" =>
        /\ \A i \in 1..Len(result) : nodes[result[i]].ids[1] = DomainPrefix
        /\ Range(ReturnedDomains) = {Segments(et)[3] : et \in DOMAIN events}
        /\ \A i, j \in 1..Len(result) : ReturnedDomains[i] = ReturnedDomains[j] => i = j

\* the 3rd segments of the identifiers in sorted order, a run of equal ones taken once
RECURSIVE Runs(_)
Runs(s) ==
    IF Len(s) <= 1 THEN s
    ELSE IF s[1] = s[2] THEN Runs(Tail(s))
    ELSE <<s[1]>> \o Runs(Tail(s))

SamePrefix ==
    \A a, b \in DOMAIN events : SubSeq(Segments(a), 1, 2) = SubSeq(Segments(b), 1, 2)

\* C9 as amended: one domain section per run of consecutive identifiers, in sorted
\* order, with the same 3rd segment; hence exactly one per distinct 3rd segment when
\* all identifiers have the same first two segments.
C9_OneSectionPerRun ==
    pc = "done" =>
        /\ \A i \in 1..Len(result) : nodes[result[i]].ids[1] = DomainPrefix
        /\ ReturnedDomains = Runs([i \in 1..Len(order) |-> Segments(order[i])[3]])
        /\ SamePrefix =>
               /\ Range(ReturnedDomains) = {Segments(et)[3] : et \in DOMAIN events}
               /\ \A i, j \in 1..Len(result) :
                      ReturnedDomains[i] = ReturnedDomains[j] => i = j

\* three identifiers with the same first two segments in two domains
C9_Witness ==
    /\ pc = "done"
    /\ SamePrefix
    /\ Len(order) = 3
    /\ Len(result) = 2

\* the second execution ended as the first
C10_SameOutcome ==
    (Ended /\ previous # NoOutcome) => Outcome = previous

\* no step changes the mapping or a record of it
C10_InputUnchanged == [][events' = events]_vars

====
